---- MODULE Spec2Model ----
(***************************************************************************)
(* Model of the waveform-reconstruction core of SAMPIClyser                *)
(* (src/src/sampiclyser/sampic_tools.py):                                  *)
(*   - select_waveforms, the lazy generator that flattens a stream of      *)
(*     record batches into waveform records (specification Spec);          *)
(*   - reorder_circular_samples_with_trigger, the circular-buffer aligner  *)
(*     (specification SpecAlign).                                          *)
(* Sequences are 1-based in TLA+; every index named after a Python index   *)
(* (count, start, shift, ones_idx, breaks, ...) keeps its 0-based value.   *)
(***************************************************************************)
EXTENDS Integers, Sequences, FiniteSets, TLC

(* ------------------------------ bounds -------------------------------- *)
MaxBatches == 2
MaxRows == 3
MaxFirst == 2
MaxNum == 2
MaxN == 6

VARIABLES
    \* ---- select_waveforms: arguments
    batches,          \* the input iterator's content: Seq of [fields, chans]
    first_hit,
    num_hits,
    channel_filter,   \* [given |-> BOOLEAN, chans |-> set]; given = FALSE is None
    \* ---- select_waveforms: generator frame
    pc,               \* position of the generator
    bi,               \* number of batches pulled from the input iterator
    ri,               \* number of rows taken from zip(...) in the current batch
    count,
    yielded,
    missing,          \* payload of the ValueError, {} when none was raised
    \* ---- select_waveforms: what the consumer / the input observed
    emitted,          \* records received by the consumer, in order
    examined,         \* number of rows the row loop has looked at
    \* ---- reorder_circular_samples_with_trigger: one call
    trig_arr,
    samp_arr,
    trig_ndim,        \* trig_arr.ndim
    samp_ndim,        \* samp_arr.ndim
    reorder_samples,
    a_status,         \* "idle", "ok" or the error raised
    a_shift,
    trig_reordered,
    samp_reordered,
    start_indicator,
    \* ---- interpolation: one call
    i_fn,             \* the function called, "none" before the call
    i_args,           \* its arguments
    i_status,         \* "idle", "ok" or the error raised
    x_fine,           \* returned time axis (t_new for the two kernels)
    y_fine,           \* returned values
    taps,             \* per output value, the sample indices its kernel summed
    \* ---- plot_channel_hits: one call
    h_status,         \* "idle", "ok" or the error raised
    h_args,
    h_channels,       \* x positions of the bars
    h_counts,         \* heights of the bars
    h_figure,         \* TRUE once a figure has been returned
    \* ---- a caller aligning a waveform twice
    w_trig,           \* the caller's trigger array
    w_samp,           \* the caller's sample array
    w_flag,           \* reorder_samples
    r_phase,          \* "none", "ready", "first", "same" or "result"
    r_first,          \* outcome of the first call
    r_second,         \* outcome of the second call
    \* ---- plot_waveform: one call
    p_status,         \* "idle", "ok" or the error raised
    p_args,
    p_line,           \* TRUE when the interpolated line was drawn
    p_trig_shifted,
    p_start,          \* positions drawn with the buffer-start marker
    p_trigger,        \* positions drawn with the trigger marker
    p_sample,         \* positions drawn with the ordinary-sample marker
    p_dots            \* positions drawn as plain dots

gvars == <<batches, first_hit, num_hits, channel_filter, pc, bi, ri, count,
           yielded, missing, emitted, examined>>
avars == <<trig_arr, samp_arr, trig_ndim, samp_ndim, reorder_samples, a_status, a_shift,
           trig_reordered, samp_reordered, start_indicator>>
ivars == <<i_fn, i_args, i_status, x_fine, y_fine, taps>>
hvars == <<h_status, h_args, h_channels, h_counts, h_figure>>
rvars == <<w_trig, w_samp, w_flag, r_phase, r_first, r_second>>
pvars == <<p_status, p_args, p_line, p_trig_shifted, p_start, p_trigger, p_sample, p_dots>>
vars == <<gvars, avars, ivars, hvars, rvars, pvars>>

(* ====================== select_waveforms ============================== *)

required_fields ==
    {"HITNumber", "Channel", "Baseline", "DataSize", "TriggerPosition", "DataSample"}

Channels == {0, 1}

(* The schemas a batch may come with: complete, and two required fields    *)
(* absent next to a column the extraction does not ask for.                *)
FieldSets ==
    { required_fields,
      (required_fields \ {"Channel", "DataSample"}) \cup {"Cell0Time"} }

SeqsUpTo(S, n) == UNION { [1..k -> S] : k \in 0..n }

Batches == [fields : FieldSets, chans : SeqsUpTo(Channels, MaxRows)]

NoFilter == [given |-> FALSE, chans |-> {}]
Filters == {NoFilter} \cup { [given |-> TRUE, chans |-> c] : c \in SUBSET Channels }

RECURSIVE RowsBefore(_, _)
(* Number of rows in the first k batches of bs. *)
RowsBefore(bs, k) ==
    IF k = 0 THEN 0 ELSE RowsBefore(bs, k - 1) + Len(bs[k].chans)

(* The input streams: at most MaxBatches batches holding at most MaxRows    *)
(* rows together (a batch may be empty).                                   *)
Streams ==
    { bs \in SeqsUpTo(Batches, MaxBatches) : RowsBefore(bs, Len(bs)) <= MaxRows }

(* Columns of batch b of the stream, row r (1-based). The HITNumber column *)
(* holds the acquisition's sequence numbers 100, 101, ... in source order. *)
ChannelOf(bs, b, r) == bs[b].chans[r]
HITNumberOf(bs, b, r) == 100 + RowsBefore(bs, b - 1) + (r - 1)

(* Mutant: "DataSample" left out of the required set. *)
MutMissing(batch) == (required_fields \ {"DataSample"}) \ batch.fields

(* line 1253 *)
Missing(batch) == required_fields \ batch.fields

(* Mutant: the membership test inverted. *)
MutFilterRejects(ch) == channel_filter.given /\ ch \in channel_filter.chans

(* line 1274 *)
FilterRejects(ch) == channel_filter.given /\ ch \notin channel_filter.chans

(* Mutant: the skip ends one row early. *)
MutBelowFirst == count < first_hit - 1

(* line 1279 *)
BelowFirst == count < first_hit

(* Mutant: off by one in the limit test. *)
MutLimitReached == yielded > num_hits

(* line 1284 *)
LimitReached == yielded >= num_hits

(* line 1288: the tuple handed to the consumer; idx and batch record where  *)
(* the row sat in the input (its full-stream index and its batch).          *)
RecordOf(bs, b, r) ==
    [hid |-> HITNumberOf(bs, b, r),
     ch |-> ChannelOf(bs, b, r),
     idx |-> RowsBefore(bs, b - 1) + (r - 1),
     batch |-> b]

Record(b, r) == RecordOf(batches, b, r)

ExtractInit ==
    /\ batches = <<>>
    /\ first_hit = 0
    /\ num_hits = 0
    /\ channel_filter = NoFilter
    /\ pc = "idle"
    /\ bi = 0
    /\ ri = 0
    /\ count = 0
    /\ yielded = 0
    /\ missing = {}
    /\ emitted = <<>>
    /\ examined = 0

(* Calling the generator function binds the arguments and runs no code. *)
Call(bs, fh, nh, cf) ==
    /\ pc = "idle"
    /\ batches' = bs
    /\ first_hit' = fh
    /\ num_hits' = nh
    /\ channel_filter' = cf
    /\ pc' = "created"
    /\ UNCHANGED <<bi, ri, count, yielded, missing, emitted, examined>>

(* The consumer asks for the next record: the first request runs lines     *)
(* 1246-1248 and enters the batch loop.                                    *)
RequestFirst ==
    /\ pc = "created"
    /\ count' = 0
    /\ yielded' = 0
    /\ pc' = "batch_loop"
    /\ UNCHANGED <<batches, first_hit, num_hits, channel_filter, bi, ri,
                   missing, emitted, examined>>

(* A later request resumes after the yield: lines 1289-1290. *)
RequestNext ==
    /\ pc = "suspended"
    /\ count' = count + 1
    /\ yielded' = yielded + 1
    /\ pc' = "row_loop"
    /\ UNCHANGED <<batches, first_hit, num_hits, channel_filter, bi, ri,
                   missing, emitted, examined>>

(* Mutant: the counter restarts with every batch. *)
MutPullBatch ==
    /\ pc = "batch_loop"
    /\ bi < Len(batches)
    /\ Missing(batches[bi + 1]) = {}
    /\ bi' = bi + 1
    /\ ri' = 0
    /\ count' = 0
    /\ pc' = "row_loop"
    /\ UNCHANGED <<batches, first_hit, num_hits, channel_filter,
                   yielded, missing, emitted, examined>>

(* lines 1250-1269: next batch, schema complete. *)
PullBatch ==
    /\ pc = "batch_loop"
    /\ bi < Len(batches)
    /\ Missing(batches[bi + 1]) = {}
    /\ bi' = bi + 1
    /\ ri' = 0
    /\ pc' = "row_loop"
    /\ UNCHANGED <<batches, first_hit, num_hits, channel_filter, count,
                   yielded, missing, emitted, examined>>

(* lines 1250-1255: next batch, a required field is absent. *)
PullBatchRaise ==
    /\ pc = "batch_loop"
    /\ bi < Len(batches)
    /\ Missing(batches[bi + 1]) # {}
    /\ bi' = bi + 1
    /\ missing' = Missing(batches[bi + 1])
    /\ pc' = "raised"
    /\ UNCHANGED <<batches, first_hit, num_hits, channel_filter, ri, count,
                   yielded, emitted, examined>>

(* line 1250: the input iterator is exhausted, the generator returns. *)
BatchesExhausted ==
    /\ pc = "batch_loop"
    /\ bi = Len(batches)
    /\ pc' = "done"
    /\ UNCHANGED <<batches, first_hit, num_hits, channel_filter, bi, ri,
                   count, yielded, missing, emitted, examined>>

HasRow == pc = "row_loop" /\ ri < Len(batches[bi].chans)

(* Mutant: a row rejected by the filter does not advance the counter. *)
MutRowFiltered ==
    /\ HasRow
    /\ FilterRejects(ChannelOf(batches, bi, ri + 1))
    /\ ri' = ri + 1
    /\ examined' = examined + 1
    /\ UNCHANGED <<batches, first_hit, num_hits, channel_filter, pc, bi,
                   count, yielded, missing, emitted>>

(* lines 1274-1276 *)
RowFiltered ==
    /\ HasRow
    /\ FilterRejects(ChannelOf(batches, bi, ri + 1))
    /\ count' = count + 1
    /\ ri' = ri + 1
    /\ examined' = examined + 1
    /\ UNCHANGED <<batches, first_hit, num_hits, channel_filter, pc, bi,
                   yielded, missing, emitted>>

(* Mutant: a skipped row does not advance the counter. *)
MutRowSkipped ==
    /\ HasRow
    /\ ~FilterRejects(ChannelOf(batches, bi, ri + 1))
    /\ BelowFirst
    /\ ri' = ri + 1
    /\ examined' = examined + 1
    /\ UNCHANGED <<batches, first_hit, num_hits, channel_filter, pc, bi,
                   count, yielded, missing, emitted>>

(* lines 1279-1281 *)
RowSkipped ==
    /\ HasRow
    /\ ~FilterRejects(ChannelOf(batches, bi, ri + 1))
    /\ BelowFirst
    /\ count' = count + 1
    /\ ri' = ri + 1
    /\ examined' = examined + 1
    /\ UNCHANGED <<batches, first_hit, num_hits, channel_filter, pc, bi,
                   yielded, missing, emitted>>

(* lines 1284-1285 *)
RowStop ==
    /\ HasRow
    /\ ~FilterRejects(ChannelOf(batches, bi, ri + 1))
    /\ ~BelowFirst
    /\ LimitReached
    /\ ri' = ri + 1
    /\ examined' = examined + 1
    /\ pc' = "done"
    /\ UNCHANGED <<batches, first_hit, num_hits, channel_filter, bi, count,
                   yielded, missing, emitted>>

(* Mutant: the record is handed over and the loop goes on unasked. *)
MutRowYield ==
    /\ HasRow
    /\ ~FilterRejects(ChannelOf(batches, bi, ri + 1))
    /\ ~BelowFirst
    /\ ~LimitReached
    /\ emitted' = Append(emitted, Record(bi, ri + 1))
    /\ ri' = ri + 1
    /\ examined' = examined + 1
    /\ count' = count + 1
    /\ yielded' = yielded + 1
    /\ UNCHANGED <<batches, first_hit, num_hits, channel_filter, pc, bi, missing>>

(* line 1288: the generator suspends at the yield. *)
RowYield ==
    /\ HasRow
    /\ ~FilterRejects(ChannelOf(batches, bi, ri + 1))
    /\ ~BelowFirst
    /\ ~LimitReached
    /\ emitted' = Append(emitted, Record(bi, ri + 1))
    /\ ri' = ri + 1
    /\ examined' = examined + 1
    /\ pc' = "suspended"
    /\ UNCHANGED <<batches, first_hit, num_hits, channel_filter, bi, count,
                   yielded, missing>>

(* Mutant: the generator returns at the end of a batch. *)
MutRowsExhausted ==
    /\ pc = "row_loop"
    /\ ri = Len(batches[bi].chans)
    /\ pc' = "done"
    /\ UNCHANGED <<batches, first_hit, num_hits, channel_filter, bi, ri,
                   count, yielded, missing, emitted, examined>>

(* line 1272: zip(...) is exhausted, back to the batch loop. *)
RowsExhausted ==
    /\ pc = "row_loop"
    /\ ri = Len(batches[bi].chans)
    /\ pc' = "batch_loop"
    /\ UNCHANGED <<batches, first_hit, num_hits, channel_filter, bi, ri,
                   count, yielded, missing, emitted, examined>>

(* ================= properties of select_waveforms ===================== *)

Min(a, b) == IF a <= b THEN a ELSE b
Take(s, n) == SubSeq(s, 1, Min(n, Len(s)))
IsPrefix(s, t) == Len(s) <= Len(t) /\ SubSeq(t, 1, Len(s)) = s

RECURSIVE Stream(_, _)
(* The rows of the first k batches, numbered 0, 1, 2, ... in source order. *)
Stream(bs, k) ==
    IF k = 0 THEN <<>>
    ELSE Stream(bs, k - 1) \o [r \in 1..Len(bs[k].chans) |-> RecordOf(bs, k, r)]

InWindow(x) ==
    /\ x.idx >= first_hit
    /\ channel_filter.given => x.ch \in channel_filter.chans

(* The selection the contract describes, over the first k batches. *)
Expected(k) == Take(SelectSeq(Stream(batches, k), InWindow), num_hits)

HasAllFields(b) == required_fields \subseteq batches[b].fields
AllValid == \A b \in 1..Len(batches) : HasAllFields(b)

(* C1: over batches that all expose the six fields, the records emitted    *)
(* are, in source order, the first max_count rows among those whose        *)
(* full-stream index is >= first_index and whose channel passes the        *)
(* filter: what has been emitted so far is always a prefix of that         *)
(* selection, and it is the whole selection when the sequence ends.        *)
C1_ExactWindow ==
    (pc # "idle" /\ AllValid) =>
        /\ pc # "raised"
        /\ IsPrefix(emitted, Expected(Len(batches)))
        /\ pc = "done" => emitted = Expected(Len(batches))

(* C1 witness: a finished extraction with a filter, a skipped prefix, a    *)
(* rejected row that consumed an index, and rows cut off by max_count.     *)
C1_Witness ==
    /\ pc = "done" /\ AllValid
    /\ channel_filter.given /\ first_hit >= 1
    /\ Len(emitted) = num_hits /\ num_hits >= 1
    /\ Len(SelectSeq(Stream(batches, Len(batches)), InWindow)) > num_hits
    /\ \E j \in 1..first_hit : ChannelOf(batches, 1, j) \notin channel_filter.chans

(* C2: at every moment at most max_count records have been emitted, and    *)
(* the emitted records are in source order (batch order, then row order).  *)
C2_BoundedAndOrdered ==
    /\ Len(emitted) <= num_hits
    /\ \A i, j \in 1..Len(emitted) :
          i < j => /\ emitted[i].batch <= emitted[j].batch
                   /\ emitted[i].idx < emitted[j].idx

(* C2 witness: max_count = 2 records emitted from two different batches    *)
(* while the input still holds an unread row.                              *)
C2_Witness ==
    /\ num_hits = 2 /\ Len(emitted) = 2
    /\ emitted[1].batch < emitted[2].batch
    /\ RowsBefore(batches, Len(batches)) > emitted[2].idx + 1

(* C3: with a channel_filter, every emitted record's channel is in it.     *)
C3_FilterMembership ==
    channel_filter.given =>
        \A i \in 1..Len(emitted) : emitted[i].ch \in channel_filter.chans

(* C3 witness: a record emitted under a filter after a row of another      *)
(* channel was rejected.                                                   *)
C3_Witness ==
    /\ channel_filter.given
    /\ Len(emitted) >= 1
    /\ \E x \in 1..Len(Stream(batches, Len(batches))) :
          /\ Stream(batches, Len(batches))[x].idx < emitted[1].idx
          /\ Stream(batches, Len(batches))[x].ch \notin channel_filter.chans

(* C4 (as claimed): once max_count rows have been emitted no further row   *)
(* is examined and no further batch is pulled.                             *)
C4_StopsReading ==
    [][(num_hits >= 1 /\ Len(emitted) = num_hits)
          => (examined' = examined /\ bi' = bi)]_vars

(* C5 (as claimed): with a filter, every emitted row has full-stream index *)
(* in [first_index, first_index + max_count).                              *)
C5_IndexWindow ==
    channel_filter.given =>
        \A i \in 1..Len(emitted) :
            /\ emitted[i].idx >= first_hit
            /\ emitted[i].idx < first_hit + num_hits

(* C5 (amended): first_index is a position in the full row stream and      *)
(* max_count is a number of emitted rows: every emitted row has index      *)
(* >= first_index, the i-th emitted row has index >= first_index + i - 1,  *)
(* at most max_count rows are emitted, and without a filter the indices    *)
(* are exactly first_index, first_index + 1, ...                           *)
C5_FirstIsPositionMaxIsCount ==
    /\ \A i \in 1..Len(emitted) : emitted[i].idx >= first_hit + (i - 1)
    /\ Len(emitted) <= num_hits
    /\ ~channel_filter.given =>
          \A i \in 1..Len(emitted) : emitted[i].idx = first_hit + (i - 1)

(* C5 witness: under a filter, a row at or beyond first_index + max_count  *)
(* has been emitted.                                                       *)
C5_Witness ==
    /\ channel_filter.given /\ first_hit >= 1
    /\ \E i \in 1..Len(emitted) : emitted[i].idx >= first_hit + num_hits

(* C6: every batch pulled is checked; a batch lacking a required field     *)
(* ends the extraction with an error naming exactly the absent required    *)
(* fields, and no row of such a batch is ever emitted.                     *)
C6_SchemaError ==
    /\ \A b \in 1..bi :
          ~HasAllFields(b) =>
              /\ b = bi
              /\ pc = "raised"
              /\ missing = {f \in required_fields : f \notin batches[b].fields}
    /\ pc = "raised" => (bi >= 1 /\ ~HasAllFields(bi))
    /\ \A i \in 1..Len(emitted) : HasAllFields(emitted[i].batch)

(* C6 witness: the error raised for a second batch all of whose rows the   *)
(* filter would have rejected.                                             *)
C6_Witness ==
    /\ pc = "raised" /\ bi = 2
    /\ missing = {"Channel", "DataSample"}
    /\ Len(batches[bi].chans) >= 1
    /\ channel_filter.given /\ channel_filter.chans = {}

(* C7 (as claimed): when a batch lacks a field the consumer gets the error *)
(* and no records of earlier batches before it.                            *)
C7_NoPrefixBeforeError == pc = "raised" => emitted = <<>>

(* C7 (amended): when the error is raised for batch k the consumer has     *)
(* received exactly the selection over the batches before k, and nothing   *)
(* of batch k or later.                                                    *)
C7_PrefixThenError ==
    pc = "raised" =>
        /\ emitted = Expected(bi - 1)
        /\ \A i \in 1..Len(emitted) : emitted[i].batch < bi

(* C7 witness: an error raised after a record was delivered. *)
C7_Witness == pc = "raised" /\ Len(emitted) >= 1 /\ first_hit >= 1

(* C24: whenever a row is examined the running counter equals the number *)
(* of rows examined before it across all batches, i.e. the row's          *)
(* full-stream index; the counter moves by single steps, never decreases, *)
(* is left alone at a batch boundary, and has counted every examined row  *)
(* (dropped by the filter, skipped or emitted) whenever the loop goes on. *)
C24_RunningCounter ==
    [][ /\ examined' = examined + 1
            => /\ count = examined
               /\ count = RowsBefore(batches, bi - 1) + ri
        /\ count' \in {count, count + 1}
        /\ bi' # bi => count' = count
        /\ pc' \in {"row_loop", "batch_loop"} => count' = examined' ]_vars

C24_Witness ==
    /\ pc = "row_loop"
    /\ bi = 2
    /\ channel_filter.given
    /\ first_hit = 2
    /\ Len(emitted) = 1
    /\ count = 3
    /\ examined = 3

(* C27: extraction is pull-based and single-pass: a batch is pulled only  *)
(* after every row of the batch before it has been examined, nothing is   *)
(* pulled or examined before the first request, the row that produces a   *)
(* record is the last one examined for that request, and while the        *)
(* consumer does not ask again (or after the sequence ended) no row is    *)
(* examined and no batch is pulled.                                       *)
C27_PullBased ==
    [][ /\ bi' # bi
            => /\ pc = "batch_loop"
               /\ bi' = bi + 1
               /\ bi >= 1 => ri = Len(batches[bi].chans)
        /\ examined' # examined
            => /\ pc = "row_loop"
               /\ examined' = examined + 1
               /\ ri' = ri + 1
        /\ pc \in {"idle", "created"} => bi' = 0 /\ examined' = 0
        /\ emitted' # emitted => pc' = "suspended"
        /\ pc = "suspended"
            => /\ pc' = "row_loop"
               /\ bi' = bi /\ ri' = ri /\ examined' = examined /\ emitted' = emitted
        /\ pc \notin {"done", "raised"} ]_vars

C27_Witness ==
    /\ pc = "suspended"
    /\ bi = 1
    /\ Len(batches) = 2
    /\ Len(emitted) = 1
    /\ examined = 1
    /\ RowsBefore(batches, Len(batches)) = 3

(* hit id, channel and full-stream index of each record *)
Flat(recs) ==
    [i \in 1..Len(recs) |-> [hid |-> recs[i].hid, ch |-> recs[i].ch, idx |-> recs[i].idx]]

RECURSIVE AllChans(_, _)
AllChans(bs, k) == IF k = 0 THEN <<>> ELSE AllChans(bs, k - 1) \o bs[k].chans

(* the rows ch as one batch, and cut in two at every place *)
Splittings(ch) ==
    { << [fields |-> required_fields, chans |-> ch] >> }
      \cup { << [fields |-> required_fields, chans |-> SubSeq(ch, 1, cut)],
                [fields |-> required_fields, chans |-> SubSeq(ch, cut + 1, Len(ch))] >>
             : cut \in 0..Len(ch) }

(* C29: the records emitted depend only on the concatenated row stream    *)
(* and on (first_index, max_count, channel_filter): they are the          *)
(* selection of every other splitting of the same rows into valid         *)
(* batches, one batch and empty batches included.                         *)
C29_BatchingIrrelevant ==
    (pc = "done" /\ AllValid) =>
        \A bs \in Splittings(AllChans(batches, Len(batches))) :
            Flat(emitted) = Flat(Take(SelectSeq(Stream(bs, Len(bs)), InWindow), num_hits))

C29_Witness ==
    /\ pc = "done" /\ AllValid
    /\ Len(batches) = 2
    /\ Len(batches[1].chans) = 2
    /\ Len(batches[2].chans) = 1
    /\ Len(emitted) = 2
    /\ emitted[1].batch = 1
    /\ emitted[2].batch = 2

(* ============ reorder_circular_samples_with_trigger =================== *)

(* 0-based index vector 0, 1, ..., n-1. *)
Idx0(n) == [i \in 1..n |-> i - 1]

(* The arrays a call may be given: 0/1 masks of length 0..MaxN, and sample *)
(* arrays of two ADC levels or the ramp 0, 1, ..., n-1.                    *)
TrigArrays == SeqsUpTo({0, 1}, MaxN)
SampArrays == SeqsUpTo({10, 20}, MaxN) \cup { Idx0(n) : n \in 0..MaxN }

(* np.flatnonzero(trig_arr == 1): ascending 0-based indices, line 1367. *)
Flatnonzero(t) == SelectSeq(Idx0(Len(t)), LAMBDA i : t[i + 1] = 1)

(* np.diff, line 1373. *)
Diff(o) == [k \in 1..(Len(o) - 1) |-> o[k + 1] - o[k]]

(* np.nonzero(diffs != 1)[0], line 1374. *)
Breaks(t) ==
    LET d == Diff(Flatnonzero(t))
    IN  SelectSeq(Idx0(Len(d)), LAMBDA k : d[k + 1] # 1)

(* line 1379 *)
LinearRun(t) == Len(Breaks(t)) = 0

(* Mutant: the test that the last index is set is dropped. *)
MutWrapRun(t) ==
    /\ Len(Breaks(t)) = 1
    /\ Flatnonzero(t)[1] = 0

(* line 1382 *)
WrapRun(t) ==
    /\ Len(Breaks(t)) = 1
    /\ Flatnonzero(t)[1] = 0
    /\ Flatnonzero(t)[Len(Flatnonzero(t))] = Len(t) - 1

(* Mutant: the wrap case also starts at the first index holding a 1. *)
MutStart(t) == Flatnonzero(t)[1]

(* lines 1379-1385 *)
Start(t) ==
    IF LinearRun(t) THEN Flatnonzero(t)[1]
    ELSE Flatnonzero(t)[(Breaks(t)[1] + 1) + 1]

(* Mutant: the shift is one position too far. *)
MutShift(t) == (Len(t) - Len(Flatnonzero(t))) - Start(t) + 1

(* lines 1389-1392 *)
Shift(t) == (Len(t) - Len(Flatnonzero(t))) - Start(t)

(* Mutant: the array is rolled the other way. *)
MutRoll(a, k) ==
    [j \in 1..Len(a) |-> a[((j - 1 + k) % Len(a)) + 1]]

(* np.roll on a 1-D array: the element at index i moves to (i + k) mod n. *)
Roll(a, k) ==
    [j \in 1..Len(a) |-> a[((j - 1 - k) % Len(a)) + 1]]

(* Python indexing of a length-n array: a negative index counts from the   *)
(* end, anything outside -n..n-1 is an IndexError.                         *)
IndexInRange(n, i) == -n <= i /\ i < n
PyIndex(n, i) == IF i >= 0 THEN i ELSE n + i

(* Mutant: the marker is written at -shift. *)
MutStartIndicator(n, shift) ==
    [j \in 1..n |-> IF j - 1 = PyIndex(n, -shift) THEN 1 ELSE 0]

(* lines 1398-1399 *)
StartIndicator(n, shift) ==
    [j \in 1..n |-> IF j - 1 = PyIndex(n, shift) THEN 1 ELSE 0]

(* Mutant: the flag is ignored and the samples are never rotated. *)
MutSampReordered(s, r, shift) == s

(* lines 1401-1405 *)
SampReordered(s, r, shift) == IF r THEN Roll(s, shift) ELSE s

AlignInit ==
    /\ trig_arr = <<>>
    /\ samp_arr = <<>>
    /\ trig_ndim = 1
    /\ samp_ndim = 1
    /\ reorder_samples = FALSE
    /\ a_status = "idle"
    /\ a_shift = 0
    /\ trig_reordered = <<>>
    /\ samp_reordered = <<>>
    /\ start_indicator = <<>>

Raise(t, s, r, err) ==
    /\ trig_arr' = t
    /\ samp_arr' = s
    /\ trig_ndim' = 1
    /\ samp_ndim' = 1
    /\ reorder_samples' = r
    /\ a_status' = err
    /\ UNCHANGED <<a_shift, trig_reordered, samp_reordered, start_indicator>>

(* lines 1359-1360: an array that is not one-dimensional (a 2-D array of   *)
(* shape (1, n) is given by its n entries). *)
AlignNotOneD(t, s, r, dt, ds) ==
    /\ dt # 1 \/ ds # 1
    /\ trig_arr' = t
    /\ samp_arr' = s
    /\ trig_ndim' = dt
    /\ samp_ndim' = ds
    /\ reorder_samples' = r
    /\ a_status' = "ShapeError"
    /\ UNCHANGED <<a_shift, trig_reordered, samp_reordered, start_indicator>>

(* lines 1361-1362 *)
AlignShapeError(t, s, r) ==
    /\ Len(t) # Len(s)
    /\ Raise(t, s, r, "ShapeError")

(* Mutant: the trigger is looked for before the shapes are compared. *)
MutAlignNoTrigger(t, s, r) ==
    /\ Len(Flatnonzero(t)) = 0
    /\ Raise(t, s, r, "AlignmentError: no trigger")

(* lines 1367-1369 *)
AlignNoTrigger(t, s, r) ==
    /\ Len(t) = Len(s)
    /\ Len(Flatnonzero(t)) = 0
    /\ Raise(t, s, r, "AlignmentError: no trigger")

(* lines 1379-1387 *)
AlignNonContiguous(t, s, r) ==
    /\ Len(t) = Len(s)
    /\ Len(Flatnonzero(t)) # 0
    /\ ~LinearRun(t)
    /\ ~WrapRun(t)
    /\ Raise(t, s, r, "AlignmentError: non-contiguous block")

(* lines 1379-1405 *)
AlignReturn(t, s, r) ==
    /\ Len(t) = Len(s)
    /\ Len(Flatnonzero(t)) # 0
    /\ LinearRun(t) \/ WrapRun(t)
    /\ trig_arr' = t
    /\ samp_arr' = s
    /\ trig_ndim' = 1
    /\ samp_ndim' = 1
    /\ reorder_samples' = r
    /\ a_shift' = Shift(t)
    /\ IF IndexInRange(Len(t), Shift(t))
       THEN /\ a_status' = "ok"
            /\ trig_reordered' = Roll(t, Shift(t))
            /\ start_indicator' = StartIndicator(Len(t), Shift(t))
            /\ samp_reordered' = SampReordered(s, r, Shift(t))
       ELSE /\ a_status' = "IndexError"
            /\ UNCHANGED <<trig_reordered, samp_reordered, start_indicator>>

(* ====== properties of reorder_circular_samples_with_trigger =========== *)

Called == a_status # "idle"
ShapesAgree ==
    trig_ndim = 1 /\ samp_ndim = 1 /\ Len(trig_arr) = Len(samp_arr)
NumOnes(t) == Cardinality({ i \in 1..Len(t) : t[i] = 1 })

(* The 1s of t are exactly the m >= 1 circularly consecutive positions     *)
(* s, s+1, ..., s+m-1 (mod n) for some s.                                  *)
CircularRun(t) ==
    \E s \in 0..(Len(t) - 1), m \in 1..Len(t) :
        \A i \in 0..(Len(t) - 1) : (t[i + 1] = 1) <=> (((i - s) % Len(t)) < m)

(* C8: for every valid mask of length n with m ones the call succeeds, the *)
(* returned mask is 1 exactly at positions n-m..n-1, and moving every      *)
(* element back by shift (mod n) gives the original mask; the two worked   *)
(* examples come out as stated.                                            *)
C8_RotationCorrect ==
    (Called /\ ShapesAgree /\ CircularRun(trig_arr)) =>
        LET n == Len(trig_arr)
            m == NumOnes(trig_arr)
        IN  /\ a_status = "ok"
            /\ Len(trig_reordered) = n
            /\ \A j \in 0..(n - 1) :
                  trig_reordered[j + 1] = IF j >= n - m THEN 1 ELSE 0
            /\ \A i \in 0..(n - 1) :
                  trig_reordered[((i + a_shift) % n) + 1] = trig_arr[i + 1]
            /\ trig_arr = <<0, 0, 1, 1, 0, 0>> => trig_reordered = <<0, 0, 0, 0, 1, 1>>
            /\ trig_arr = <<1, 1, 0, 0>> => trig_reordered = <<0, 0, 1, 1>>

(* C8 witness: a wrapping run rotated to the end by a negative shift. *)
C8_Witness ==
    /\ a_status = "ok"
    /\ trig_arr = <<1, 0, 0, 0, 1, 1>>
    /\ trig_reordered = <<0, 0, 0, 1, 1, 1>>
    /\ a_shift = -1

(* C9: with equal-length arrays the call succeeds exactly when the 1s are  *)
(* one non-empty circularly contiguous block; no 1 at all is reported as   *)
(* "no trigger", separated runs as "non-contiguous block"; the code's test *)
(* agrees with circular contiguity.                                        *)
C9_ContiguityTest ==
    (Called /\ ShapesAgree) =>
        /\ a_status = "ok" <=> CircularRun(trig_arr)
        /\ NumOnes(trig_arr) = 0 => a_status = "AlignmentError: no trigger"
        /\ (NumOnes(trig_arr) > 0 /\ ~CircularRun(trig_arr))
              => a_status = "AlignmentError: non-contiguous block"
        /\ NumOnes(trig_arr) > 0
              => ((LinearRun(trig_arr) \/ WrapRun(trig_arr)) <=> CircularRun(trig_arr))

(* C9 witness: the mask [1,0,1,0] rejected as non-contiguous. *)
C9_Witness ==
    /\ trig_arr = <<1, 0, 1, 0>>
    /\ ShapesAgree
    /\ a_status = "AlignmentError: non-contiguous block"

(* C10: on success start_indicator has length n and holds a single 1, at   *)
(* position shift mod n, the place original index 0 was moved to; the      *)
(* write never falls outside the array.                                    *)
C10_StartMarkerOneHot ==
    /\ a_status # "IndexError"
    /\ a_status = "ok" =>
          LET n == Len(trig_arr)
              p == a_shift % n
          IN  /\ Len(start_indicator) = n
              /\ \A j \in 0..(n - 1) :
                    start_indicator[j + 1] = IF j = p THEN 1 ELSE 0
              /\ Roll(Idx0(n), a_shift)[p + 1] = 0
              /\ trig_reordered[p + 1] = trig_arr[1]
              /\ reorder_samples => samp_reordered[p + 1] = samp_arr[1]

(* C10 witness: the wrap-around case, where shift is negative and the      *)
(* marker is written counting from the end.                                *)
C10_Witness ==
    /\ a_status = "ok"
    /\ a_shift < 0
    /\ start_indicator[Len(trig_arr) + a_shift + 1] = 1
    /\ samp_arr = Idx0(Len(trig_arr))
    /\ reorder_samples

(* Position (0-based) of the single 1 of a one-hot array. *)
MarkerIndex(a) == CHOOSE p \in 0..(Len(a) - 1) : a[p + 1] = 1

(* Where the run of 1s begins when read circularly: the index holding a 1  *)
(* whose circular predecessor holds a 0 (index 0 for an all-ones mask).    *)
LogicalStart(t) ==
    IF \A i \in 1..Len(t) : t[i] = 1 THEN 0
    ELSE CHOOSE i \in 0..(Len(t) - 1) :
            t[i + 1] = 1 /\ t[((i - 1) % Len(t)) + 1] = 0

(* C11 (as claimed): the index of the 1 in start_marker equals             *)
(* shift = (n - m) - start.                                                *)
C11_MarkerIndexIsShift ==
    a_status = "ok" => MarkerIndex(start_indicator) = a_shift

(* C11 (amended): shift = (n - m) - start with start the logical start of  *)
(* the run; the index of the 1 in start_marker is shift mod n, which is    *)
(* shift itself exactly when the run does not wrap (then shift >= 0) and   *)
(* n + shift when it wraps (then shift < 0).                               *)
C11_MarkerIndexIsShiftModN ==
    a_status = "ok" =>
        LET n == Len(trig_arr)
            m == NumOnes(trig_arr)
            wraps == trig_arr[1] = 1 /\ trig_arr[n] = 1 /\ m < n
        IN  /\ a_shift = (n - m) - LogicalStart(trig_arr)
            /\ MarkerIndex(start_indicator) = a_shift % n
            /\ ~wraps => (a_shift >= 0 /\ MarkerIndex(start_indicator) = a_shift)
            /\ wraps => (a_shift < 0 /\ MarkerIndex(start_indicator) = n + a_shift)

(* C11 witness: the mask [1,0,0,1], whose run starts at index 3: shift is  *)
(* -1 and the marker sits at index 3.                                      *)
C11_Witness ==
    /\ a_status = "ok"
    /\ trig_arr = <<1, 0, 0, 1>>
    /\ a_shift = -1
    /\ start_indicator = <<0, 0, 0, 1>>

(* C12: with rotate_samples the sample at original index i is returned at  *)
(* index (i + shift) mod n, next to its own trigger flag; without it the   *)
(* samples come back in the original order while the mask is rotated.      *)
C12_SamplesFollowFlag ==
    a_status = "ok" =>
        LET n == Len(trig_arr)
        IN  /\ Len(samp_reordered) = n
            /\ reorder_samples =>
                  \A i \in 0..(n - 1) :
                      /\ samp_reordered[((i + a_shift) % n) + 1] = samp_arr[i + 1]
                      /\ trig_reordered[((i + a_shift) % n) + 1] = trig_arr[i + 1]
            /\ ~reorder_samples =>
                  /\ samp_reordered = samp_arr
                  /\ \A i \in 0..(n - 1) :
                        trig_reordered[((i + a_shift) % n) + 1] = trig_arr[i + 1]
            /\ (reorder_samples /\ trig_arr = <<0, 0, 1, 1, 0, 0>>
                  /\ samp_arr = <<0, 1, 2, 3, 4, 5>>)
                  => samp_reordered = <<4, 5, 0, 1, 2, 3>>

(* C12 witness: the same mask and ramp without rotate_samples: the mask is *)
(* rotated, the samples are not.                                           *)
C12_Witness ==
    /\ a_status = "ok"
    /\ ~reorder_samples
    /\ trig_arr = <<0, 0, 1, 1, 0, 0>>
    /\ samp_arr = <<0, 1, 2, 3, 4, 5>>
    /\ trig_reordered = <<0, 0, 0, 0, 1, 1>>
    /\ samp_reordered = <<0, 1, 2, 3, 4, 5>>

(* C13: a call fails with ShapeError exactly when an array is not          *)
(* one-dimensional or the lengths differ, whatever the mask holds: the     *)
(* shape is checked before the trigger.                                    *)
C13_ShapeFirst ==
    Called =>
        ((trig_ndim # 1 \/ samp_ndim # 1 \/ Len(trig_arr) # Len(samp_arr))
            <=> a_status = "ShapeError")

(* C13 witness: a mask without any 1 and a sample array of another length. *)
C13_Witness ==
    /\ a_status = "ShapeError"
    /\ trig_ndim = 1 /\ samp_ndim = 1
    /\ trig_arr = <<0, 0, 0>>
    /\ Len(samp_arr) = 2

(* ===================== interpolation engine =========================== *)
(* Times and sample values are exact rationals <<num, den>> (den > 0, in   *)
(* lowest terms); an integer n is <<n, 1>>.  The kernel function sinc is   *)
(* kept symbolic except where its value is known exactly: sinc(0) = 1 and  *)
(* sinc(k) = 0 at every other integer k.                                   *)

RECURSIVE GCD(_, _)
GCD(a, b) == IF b = 0 THEN a ELSE GCD(b, a % b)

Abs(n) == IF n < 0 THEN -n ELSE n

RatNorm(n, d) ==
    LET g == GCD(Abs(n), Abs(d))
        sg == IF d < 0 THEN -1 ELSE 1
    IN  <<(sg * n) \div g, (sg * d) \div g>>

R(n) == <<n, 1>>
RAdd(a, b) == RatNorm(a[1] * b[2] + b[1] * a[2], a[2] * b[2])
RSub(a, b) == RatNorm(a[1] * b[2] - b[1] * a[2], a[2] * b[2])
RMul(a, b) == RatNorm(a[1] * b[1], a[2] * b[2])
RDiv(a, b) == RatNorm(a[1] * b[2], a[2] * b[1])
RLt(a, b) == a[1] * b[2] < b[1] * a[2]
RLe(a, b) == a[1] * b[2] <= b[1] * a[2]
RIsInt(a) == a[2] = 1

(* int(np.floor(x)) *)
RFloor(a) == a[1] \div a[2]

(* int(np.round(x)): halves go to the even neighbour. *)
RRound(a) ==
    LET f == RFloor(a)
        twice == RSub(RMul(R(2), a), R(2 * f))     \* 2 * (a - f), in [0, 2)
    IN  IF RLt(twice, R(1)) THEN f
        ELSE IF RLt(R(1), twice) THEN f + 1
        ELSE IF f % 2 = 0 THEN f ELSE f + 1

RatSeq(x) == [i \in 1..Len(x) |-> R(x[i])]

(* Mutant: the end point is left out (endpoint = False). *)
MutLinspace(start, stop, num) ==
    [i \in 1..num |-> RAdd(start, RMul(R(i - 1), RDiv(RSub(stop, start), R(num))))]

(* np.linspace(start, stop, num) for num >= 1. *)
Linspace(start, stop, num) ==
    IF num = 1 THEN <<start>>
    ELSE [i \in 1..num |->
            IF i = num THEN stop
            ELSE RAdd(start, RMul(R(i - 1), RDiv(RSub(stop, start), R(num - 1))))]

(* np.allclose(np.diff(t), T, atol = 1e-8 * T) with the default            *)
(* rtol = 1e-5, for integer times: |d - T| <= 1e-8 * T + 1e-5 * |T|.       *)
UniformlySpaced(t) ==
    LET T == t[2] - t[1]
    IN  \A i \in 1..(Len(t) - 1) :
            Abs((t[i + 1] - t[i]) - T) * 100000000 <= T + 1000 * Abs(T)

(* The same test with atol = 1e-8 * abs(T), line 1055. *)
UniformlySpacedAbs(t) ==
    LET T == t[2] - t[1]
    IN  \A i \in 1..(Len(t) - 1) :
            Abs((t[i + 1] - t[i]) - T) * 100000000 <= Abs(T) + 1000 * Abs(T)

RMin(t) == CHOOSE a \in { t[i] : i \in 1..Len(t) } : \A i \in 1..Len(t) : RLe(a, t[i])
RMax(t) == CHOOSE a \in { t[i] : i \in 1..Len(t) } : \A i \in 1..Len(t) : RLe(t[i], a)

(* t_new.min() < t_orig.min() or t_new.max() > t_orig.max(), lines 942, 1048 *)
OutOfRange(t_orig, t_new) ==
    \/ RLt(RMin(t_new), RMin(RatSeq(t_orig)))
    \/ RLt(RMax(RatSeq(t_orig)), RMax(t_new))

(* A kernel weight.  kind "one" is the number 1 and kind "zero" the number *)
(* 0; any other weight is the symbolic product of sinc(arg) and the taper  *)
(* of its kind: the window tap w[tap] / w[0] of half-width par for "hann"  *)
(* and "hamming", sinc(arg / par) for "lanczos", nothing for "sinc".       *)
One == [kind |-> "one", arg |-> R(0), tap |-> 0, par |-> 0]
Zero == [kind |-> "zero", arg |-> R(0), tap |-> 0, par |-> 0]

Weight(kind, arg, tap, par) ==
    IF RIsInt(arg) /\ arg # R(0) THEN Zero
    ELSE IF arg = R(0) /\ tap = 0 THEN One
    ELSE [kind |-> kind, arg |-> arg, tap |-> tap, par |-> par]

(* An interpolated value: the weighted sum of terms [w, y] (divided by the *)
(* sum of the weights when norm), plus add; a value computed by scipy is   *)
(* the opaque lib = [name, at, of, par]: output at of name(of, par).       *)
NoLib == [name |-> "", at |-> 0, of |-> <<>>, par |-> 0]

Value(terms, norm) ==
    [terms |-> SelectSeq(terms, LAMBDA tm : tm.w # Zero),
     norm |-> norm, add |-> 0, lib |-> NoLib]

LibValue(name, i, ys, par) ==
    [terms |-> <<>>, norm |-> FALSE, add |-> 0,
     lib |-> [name |-> name, at |-> i, of |-> ys, par |-> par]]

(* v + offset *)
AddOffset(v, c) == [v EXCEPT !.add = @ + c]

(* y_orig - offset *)
SubOffset(y, c) == [j \in 1..Len(y) |-> y[j] - c]

(* Mutant: index 0 is treated as out of bounds. *)
MutInBounds(idx, n) == idx > 0 /\ idx < n

(* lines 969, 1068 *)
InBounds(idx, n) == idx >= 0 /\ idx < n

(* Mutant: an index outside the array is moved to the nearest end. *)
MutSupport(lo, hi, n) ==
    [q \in 1..(hi - lo + 1) |->
        IF lo + q - 1 < 0 THEN 0 ELSE IF lo + q - 1 > n - 1 THEN n - 1 ELSE lo + q - 1]

(* The entries of the ascending index vector lo, lo+1, ..., hi that are    *)
(* in bounds for an array of n entries. *)
Support(lo, hi, n) ==
    SelectSeq([q \in 1..(hi - lo + 1) |-> lo + q - 1], LAMBDA idx : InBounds(idx, n))

(* lines 965-971: idx[valid] of one output sample. *)
WindowedTaps(t_orig, tn, M) ==
    LET n0 == RRound(RDiv(RSub(tn, R(t_orig[1])), R(t_orig[2] - t_orig[1])))
    IN  Support(n0 - M, n0 + M, Len(t_orig))

(* lines 963-976: one output sample of windowed_sinc_interpolation. *)
WindowedSincAt(t_orig, y_orig, tn, window, M) ==
    LET T == t_orig[2] - t_orig[1]
        n0 == RRound(RDiv(RSub(tn, R(t_orig[1])), R(T)))
        idx == WindowedTaps(t_orig, tn, M)
    IN  Value([q \in 1..Len(idx) |->
                 [w |-> Weight(window,
                               RDiv(RSub(tn, R(t_orig[idx[q] + 1])), R(T)),
                               idx[q] - n0, M),
                  y |-> y_orig[idx[q] + 1]]],
              FALSE)

Failed(err) == [status |-> err, x_fine |-> <<>>, y_fine |-> <<>>, taps |-> <<>>]

(* lines 930-978 *)
WindowedSincInterpolation(t_orig, y_orig, t_new, window, M) ==
    IF Len(t_orig) < 2 THEN Failed("ValueError: need two samples")
    ELSE IF OutOfRange(t_orig, t_new) THEN Failed("DomainError: out of range")
    ELSE IF window \notin {"hann", "hamming"} THEN Failed("ConfigError: unknown window")
    ELSE IF ~UniformlySpaced(t_orig) THEN Failed("DomainError: non-uniform spacing")
    ELSE IF M < 0 THEN Failed("IndexError")
    ELSE [status |-> "ok",
          x_fine |-> t_new,
          y_fine |-> [i \in 1..Len(t_new) |->
                        WindowedSincAt(t_orig, y_orig, t_new[i], window, M)],
          taps |-> [i \in 1..Len(t_new) |->
                      WindowedTaps(t_orig, t_new[i], M)]]

(* lines 1062-1069: k[mask] of one output sample. *)
LanczosTaps(t_orig, tn, a) ==
    LET m == RFloor(RDiv(RSub(tn, R(t_orig[1])), R(t_orig[2] - t_orig[1])))
    IN  Support(m - a + 1, m + a, Len(t_orig))

(* Mutant: the weights are not divided by their sum. *)
MutLanczosAt(t_orig, y_orig, tn, a) ==
    LET T == t_orig[2] - t_orig[1]
        k == LanczosTaps(t_orig, tn, a)
    IN  Value([q \in 1..Len(k) |->
                 [w |-> Weight("lanczos",
                               RDiv(RSub(tn, R(t_orig[k[q] + 1])), R(T)), 0, a),
                  y |-> y_orig[k[q] + 1]]],
              FALSE)

(* lines 1061-1080: one output sample of lanczos_interpolation. *)
LanczosAt(t_orig, y_orig, tn, a) ==
    LET T == t_orig[2] - t_orig[1]
        m == RFloor(RDiv(RSub(tn, R(t_orig[1])), R(T)))
        k == LanczosTaps(t_orig, tn, a)
    IN  Value([q \in 1..Len(k) |->
                 [w |-> Weight("lanczos",
                               RDiv(RSub(tn, R(t_orig[k[q] + 1])), R(T)), 0, a),
                  y |-> y_orig[k[q] + 1]]],
              TRUE)

(* lines 1035-1082 *)
LanczosInterpolation(t_orig, y_orig, t_new, a) ==
    IF Len(t_orig) # Len(y_orig) THEN Failed("ShapeError")
    ELSE IF a < 1 THEN Failed("ConfigError: lanczos order")
    ELSE IF OutOfRange(t_orig, t_new) THEN Failed("DomainError: out of range")
    ELSE IF Len(t_orig) < 2 THEN Failed("IndexError")
    ELSE IF ~UniformlySpacedAbs(t_orig) THEN Failed("DomainError: non-uniform spacing")
    ELSE [status |-> "ok",
          x_fine |-> t_new,
          y_fine |-> [i \in 1..Len(t_new) |-> LanczosAt(t_orig, y_orig, t_new[i], a)],
          taps |-> [i \in 1..Len(t_new) |-> LanczosTaps(t_orig, t_new[i], a)]]

(* interpolation_method.lower() for the names the model passes. *)
Lower(name) ==
    CASE name = "Sinc" -> "sinc"
      [] name = "HANN" -> "hann"
      [] OTHER -> name

(* Mutant: the method name is compared as given. *)
MutLowerMethod(m) == IF m.given THEN m.name ELSE ""

(* line 1166; m = [given, name], given = FALSE is None *)
LowerMethod(m) == IF m.given /\ m.name # "" THEN Lower(m.name) ELSE ""

(* line 1159 *)
OffsetOf(offset) == IF offset.given THEN offset.val ELSE 0

(* Mutant: one point per interval plus the last one. *)
MutNumFine(n, factor) == (n - 1) * factor + 1

(* line 1162 *)
NumFine(n, factor) == n * factor

(* Mutant: the grid stops one step short of x_orig[-1]. *)
MutXFine(x, num) ==
    [i \in 1..num |->
        RAdd(R(x[1]), RMul(R(i - 1), RDiv(R(x[Len(x)] - x[1]), R(num))))]

(* line 1163 *)
XFine(x, num) == Linspace(R(x[1]), R(x[Len(x)]), num)

(* Mutant: the offset is not added back. *)
MutSincBranch(x, y, period, xf, c) ==
    [status |-> "ok",
     x_fine |-> xf,
     y_fine |-> [i \in 1..Len(xf) |->
                   Value([j \in 1..Len(x) |->
                            [w |-> Weight("sinc",
                                          RDiv(RSub(xf[i], R(x[j])), R(period)), 0, 0),
                             y |-> SubOffset(y, c)[j]]],
                         FALSE)],
     taps |-> [i \in 1..Len(xf) |-> Idx0(Len(x))]]

(* lines 1167-1169 *)
SincBranch(x, y, period, xf, c) ==
    [status |-> "ok",
     x_fine |-> xf,
     y_fine |-> [i \in 1..Len(xf) |->
                   AddOffset(Value([j \in 1..Len(x) |->
                                      [w |-> Weight("sinc",
                                                    RDiv(RSub(xf[i], R(x[j])), R(period)),
                                                    0, 0),
                                       y |-> SubOffset(y, c)[j]]],
                                   FALSE),
                             c)],
     taps |-> [i \in 1..Len(xf) |-> Idx0(Len(x))]]

(* the "+ offset" of lines 1171-1178, which an exception never reaches *)
PlusOffset(r, c) ==
    IF r.status # "ok" THEN r
    ELSE [r EXCEPT !.y_fine = [i \in 1..Len(r.y_fine) |-> AddOffset(r.y_fine[i], c)]]

(* lines 1171-1175 *)
WindowedBranch(x, y, xf, method, M, c) ==
    PlusOffset(WindowedSincInterpolation(x, SubOffset(y, c), xf, method, M), c)

(* lines 1177-1178 *)
LanczosBranch(x, y, xf, a, c) ==
    PlusOffset(LanczosInterpolation(x, SubOffset(y, c), xf, a), c)

(* lines 1180-1185: scipy.signal.resample(y, num, t) returns num values    *)
(* and the axis arange(num) * (t[1] - t[0]) * len(y) / num + t[0].         *)
ResampleBranch(x, y, num, c) ==
    IF Len(x) < 2 THEN Failed("IndexError")
    ELSE [status |-> "ok",
          x_fine |-> [i \in 1..num |->
                        RAdd(RDiv(R((i - 1) * (x[2] - x[1]) * Len(y)), R(num)), R(x[1]))],
          y_fine |-> [i \in 1..num |->
                        AddOffset(LibValue("resample", i, SubOffset(y, c), 0), c)],
          taps |-> <<>>]

(* lines 1187-1193: scipy.signal.resample_poly(y, up, 1, ...) returns      *)
(* len(y) * up values. *)
ResamplePolyBranch(y, xf, up, beta, c) ==
    [status |-> "ok",
     x_fine |-> xf,
     y_fine |-> [i \in 1..(Len(y) * up) |->
                   AddOffset(LibValue("resample_poly", i, SubOffset(y, c), beta), c)],
     taps |-> <<>>]

(* lines 1149-1198; a = [x_orig, y_orig, period, method, factor, param, offset] *)
ApplyInterpolationMethod(a) ==
    IF Len(a.x_orig) # Len(a.y_orig) THEN Failed("ShapeError")
    ELSE IF a.factor < 1 THEN Failed("ConfigError: interpolation_factor")
    ELSE IF Len(a.x_orig) = 0 THEN Failed("IndexError")
    ELSE LET c == OffsetOf(a.offset)
             num_fine == NumFine(Len(a.x_orig), a.factor)
             xf == XFine(a.x_orig, num_fine)
             method == LowerMethod(a.method)
         IN  CASE method = "sinc" ->
                    SincBranch(a.x_orig, a.y_orig, a.period, xf, c)
               [] method \in {"hann", "hamming"} ->
                    WindowedBranch(a.x_orig, a.y_orig, xf, method, a.param, c)
               [] method = "lanczos" ->
                    LanczosBranch(a.x_orig, a.y_orig, xf, a.param, c)
               [] method = "resample" ->
                    ResampleBranch(a.x_orig, a.y_orig, num_fine, c)
               [] method = "resample_poly" ->
                    ResamplePolyBranch(a.y_orig, xf, a.factor, a.param, c)
               [] OTHER -> Failed("ConfigError: unknown method")

(* ---- inputs of the interpolation calls ---- *)
MaxLen == 3
MaxFactor == 2

UniformAxes ==
    { [i \in 1..n |-> x0 + (i - 1) * T] : x0 \in {0, 1}, T \in {1, 2}, n \in 1..MaxLen }
UnevenAxes ==
    { [x EXCEPT ![Len(x)] = @ + 1] : x \in { u \in UniformAxes : Len(u) >= 3 } }
Axes == UniformAxes \cup UnevenAxes
Samples ==
    { [i \in 1..n |-> 10 * i] : n \in 1..MaxLen } \cup { [i \in 1..n |-> 20] : n \in 1..MaxLen }
Periods == {1, 2}
None == [given |-> FALSE, name |-> ""]
Methods ==
    { [given |-> TRUE, name |-> nm] :
        nm \in {"sinc", "Sinc", "hann", "HANN", "hamming", "lanczos", "resample",
                "resample_poly", "cubic", ""} } \cup {None}
Factors == 0..MaxFactor
Params == {-1, 0, 1, 2}
NoOffset == [given |-> FALSE, val |-> 0]
Offsets == { [given |-> TRUE, val |-> c] : c \in {0, 10} } \cup {NoOffset}
Windows == {"hann", "hamming", "blackman"}
(* t_new: every original time, or one time on the half-integer grid *)
NewTimes(t) == {RatSeq(t)} \cup { <<RatNorm(h, 2)>> : h \in (-1)..(4 * MaxLen + 3) }

ApplyArgs ==
    [x_orig : Axes, y_orig : Samples, period : Periods, method : Methods,
     factor : Factors, param : Params, offset : Offsets, t_new : {<<>>}]

KernelArgs(windows) ==
    UNION { [x_orig : {t}, y_orig : Samples, period : {0},
             method : { [given |-> TRUE, name |-> w] : w \in windows },
             factor : {0}, param : Params, offset : {NoOffset}, t_new : NewTimes(t)]
            : t \in Axes }

InterpInit ==
    /\ i_fn = "none"
    /\ i_args = [x_orig |-> <<>>, y_orig |-> <<>>, period |-> 0, method |-> None,
                 factor |-> 0, param |-> 0, offset |-> NoOffset, t_new |-> <<>>]
    /\ i_status = "idle"
    /\ x_fine = <<>>
    /\ y_fine = <<>>
    /\ taps = <<>>

Returned(fn, a, r) ==
    /\ i_fn' = fn
    /\ i_args' = a
    /\ i_status' = r.status
    /\ x_fine' = r.x_fine
    /\ y_fine' = r.y_fine
    /\ taps' = r.taps

(* a call of apply_interpolation_method *)
CallApply(a) == Returned("apply_interpolation_method", a, ApplyInterpolationMethod(a))

(* a direct call of windowed_sinc_interpolation with arrays of one length *)
CallWindowedSinc(a) ==
    /\ Len(a.x_orig) = Len(a.y_orig)
    /\ Returned("windowed_sinc_interpolation", a,
                WindowedSincInterpolation(a.x_orig, a.y_orig, a.t_new, a.method.name, a.param))

(* a direct call of lanczos_interpolation *)
CallLanczos(a) ==
    Returned("lanczos_interpolation", a,
             LanczosInterpolation(a.x_orig, a.y_orig, a.t_new, a.param))

(* ---- properties of the interpolation calls ---- *)
Applied == i_fn = "apply_interpolation_method"
AppliedOk == Applied /\ i_status = "ok"
MethodIs(names) == i_args.method.given /\ i_args.method.name \in names
GridMethods == {"sinc", "Sinc", "hann", "HANN", "hamming", "lanczos", "resample_poly"}
NominalLength == Len(i_args.x_orig) * i_args.factor

(* C14: for sinc, hann, hamming, lanczos and resample_poly and every      *)
(* factor >= 1, the x_fine and y_fine that apply_interpolation_method     *)
(* returns both have length exactly len(x_orig) * factor.                 *)
C14_OutputLength ==
    (AppliedOk /\ MethodIs(GridMethods))
        => /\ i_args.factor >= 1
           /\ Len(x_fine) = NominalLength
           /\ Len(y_fine) = NominalLength

C14_Witness ==
    /\ AppliedOk
    /\ MethodIs({"hann"})
    /\ Len(i_args.x_orig) = 3
    /\ i_args.factor = 2
    /\ Len(x_fine) = 6
    /\ Len(y_fine) = 6

(* every gap of x equals the first one *)
ExactlyUniform(x) == \A i \in 1..(Len(x) - 1) : x[i + 1] - x[i] = x[2] - x[1]

(* x_fine[i + 1] - x_fine[i] is the same for every i *)
EvenlySpaced(xf) ==
    \A i, j \in 1..(Len(xf) - 1) : RSub(xf[i + 1], xf[i]) = RSub(xf[j + 1], xf[j])

C15_ResampleWitness ==
    /\ AppliedOk
    /\ MethodIs({"resample"})
    /\ i_args.x_orig = <<1, 3, 5>>
    /\ i_args.factor = 2
    /\ x_fine = <<R(1), R(2), R(3), R(4), R(5), R(6)>>

KnownMethods ==
    {"sinc", "Sinc", "hann", "HANN", "hamming", "lanczos", "resample", "resample_poly"}
ParamMethods == {"hann", "HANN", "hamming", "lanczos", "resample_poly"}
ConfigErrors ==
    {"ConfigError: interpolation_factor", "ConfigError: unknown method",
     "ConfigError: lanczos order", "ConfigError: unknown window"}

(* the arrays have one length >= 2 and the factor is >= 1 *)
ArraysAndFactorValid ==
    /\ Len(i_args.x_orig) = Len(i_args.y_orig)
    /\ Len(i_args.x_orig) >= 2
    /\ i_args.factor >= 1

(* C16: for every method, an x_orig whose gaps differ from each other or  *)
(* are uniform but differ from period is rejected with DomainError        *)
(* (non-uniform spacing) instead of a result.                             *)
C16_RejectsSpacingOtherThanPeriod ==
    ( /\ Applied
      /\ ArraysAndFactorValid
      /\ MethodIs(KnownMethods)
      /\ i_args.param >= 1
      /\ \/ ~ExactlyUniform(i_args.x_orig)
         \/ i_args.x_orig[2] - i_args.x_orig[1] # i_args.period )
        => i_status = "DomainError: non-uniform spacing"

(* C16, what the code does: unequal gaps are rejected by hann, hamming    *)
(* and lanczos only, and no method compares the gap with period.          *)
C16_SpacingCheckedByKernelsOnly ==
    ( /\ Applied
      /\ ArraysAndFactorValid
      /\ MethodIs(KnownMethods)
      /\ i_args.param >= 1 )
        => ( i_status = "DomainError: non-uniform spacing"
               <=> /\ MethodIs({"hann", "HANN", "hamming", "lanczos"})
                   /\ ~ExactlyUniform(i_args.x_orig) )

C16_UnevenReturned ==
    /\ AppliedOk
    /\ MethodIs({"sinc"})
    /\ i_args.x_orig = <<0, 1, 3>>
    /\ i_args.period = 1
    /\ Len(y_fine) = 3

(* C17: apply_interpolation_method raises the unknown-method ConfigError  *)
(* exactly for the method names outside {sinc, hann, hamming, lanczos,    *)
(* resample, resample_poly} compared case-insensitively, the empty name   *)
(* and None included, and then returns no arrays.                         *)
C17_UnknownMethod ==
    ( /\ Applied
      /\ Len(i_args.x_orig) = Len(i_args.y_orig)
      /\ i_args.factor >= 1 )
        => /\ ~MethodIs(KnownMethods) <=> i_status = "ConfigError: unknown method"
           /\ i_status = "ConfigError: unknown method" => x_fine = <<>> /\ y_fine = <<>>

C17_Witness ==
    /\ Applied
    /\ i_args.method = None
    /\ i_args.factor = 1
    /\ i_status = "ConfigError: unknown method"
    /\ y_fine = <<>>

(* C18: a factor < 1, and a kernel parameter < 1 for hann, hamming,       *)
(* lanczos and resample_poly, is reported as ConfigError and neither      *)
(* produces a result nor fails in another way.                            *)
C18_InvalidFactorOrParameter ==
    ( /\ Applied
      /\ Len(i_args.x_orig) = Len(i_args.y_orig)
      /\ Len(i_args.x_orig) >= 2
      /\ ExactlyUniform(i_args.x_orig)
      /\ MethodIs(KnownMethods)
      /\ \/ i_args.factor < 1
         \/ MethodIs(ParamMethods) /\ i_args.param < 1 )
        => i_status \in ConfigErrors

C18_ZeroHalfWidthReturned ==
    /\ AppliedOk
    /\ MethodIs({"hann"})
    /\ i_args.param = 0
    /\ i_args.x_orig = <<0, 1, 2>>
    /\ Len(y_fine) = 3

C18_NegativeHalfWidthIndexError ==
    /\ Applied
    /\ MethodIs({"hamming"})
    /\ i_args.param = -1
    /\ i_status = "IndexError"

(* the call with y_orig - c and offset = 0 *)
WithoutOffset(a) ==
    [a EXCEPT !.y_orig = SubOffset(@, OffsetOf(a.offset)),
              !.offset = [given |-> TRUE, val |-> 0]]

(* C19: for each of the six methods and every input, the call with        *)
(* offset = c ends as the call with y - c and offset = 0 does, with c     *)
(* added to every output value; an absent offset behaves as offset = 0.   *)
C19_OffsetHandling ==
    Applied =>
        LET c == IF i_args.offset.given THEN i_args.offset.val ELSE 0
            base == ApplyInterpolationMethod(WithoutOffset(i_args))
        IN  /\ i_status = base.status
            /\ x_fine = base.x_fine
            /\ Len(y_fine) = Len(base.y_fine)
            /\ \A i \in 1..Len(y_fine) :
                   /\ y_fine[i].terms = base.y_fine[i].terms
                   /\ y_fine[i].norm = base.y_fine[i].norm
                   /\ y_fine[i].lib = base.y_fine[i].lib
                   /\ y_fine[i].add = base.y_fine[i].add + c

C19_Witness ==
    /\ AppliedOk
    /\ MethodIs({"sinc"})
    /\ i_args.offset = [given |-> TRUE, val |-> 10]
    /\ i_args.y_orig = <<10, 20, 30>>
    /\ i_args.factor = 2
    /\ \A i \in 1..Len(y_fine) : y_fine[i].add = 10
    /\ y_fine[1].terms = <<[w |-> One, y |-> 0]>>

(* the value v is exactly the number y: one term of weight 1 *)
ValueIs(v, y) ==
    /\ v.lib = NoLib
    /\ Len(v.terms) = 1
    /\ v.terms[1].w = One
    /\ v.terms[1].y + v.add = y

KernelCall ==
    \/ i_fn \in {"windowed_sinc_interpolation", "lanczos_interpolation"}
    \/ Applied /\ MethodIs({"hann", "HANN", "hamming", "lanczos"})

(* C20: for hann, hamming and lanczos, an output time equal to an         *)
(* original sample's time t_orig[j] gets the value y_orig[j], for every   *)
(* j, the first and the last included.                                    *)
C20_OriginalSamplesReproduced ==
    (KernelCall /\ i_status = "ok")
        => \A i \in 1..Len(x_fine) : \A j \in 1..Len(i_args.x_orig) :
               x_fine[i] = R(i_args.x_orig[j]) => ValueIs(y_fine[i], i_args.y_orig[j])

C20_Witness ==
    /\ i_fn = "lanczos_interpolation"
    /\ i_status = "ok"
    /\ i_args.x_orig = <<1, 3, 5>>
    /\ i_args.y_orig = <<10, 20, 30>>
    /\ i_args.param = 2
    /\ x_fine = <<R(1), R(3), R(5)>>
    /\ ValueIs(y_fine[1], 10)
    /\ ValueIs(y_fine[3], 30)

(* C21: with method sinc and factor 1 on a grid of spacing period,       *)
(* apply_interpolation_method returns x_fine equal to x_orig and y_fine   *)
(* equal to y_orig sample for sample, whatever the offset.                *)
C21_SincIdentity ==
    ( /\ Applied
      /\ MethodIs({"sinc", "Sinc"})
      /\ i_args.factor = 1
      /\ Len(i_args.x_orig) = Len(i_args.y_orig)
      /\ ExactlyUniform(i_args.x_orig)
      /\ Len(i_args.x_orig) >= 2 => i_args.x_orig[2] - i_args.x_orig[1] = i_args.period )
        => /\ i_status = "ok"
           /\ x_fine = RatSeq(i_args.x_orig)
           /\ Len(y_fine) = Len(i_args.y_orig)
           /\ \A i \in 1..Len(y_fine) : ValueIs(y_fine[i], i_args.y_orig[i])

C21_Witness ==
    /\ AppliedOk
    /\ MethodIs({"sinc"})
    /\ i_args.factor = 1
    /\ i_args.x_orig = <<1, 3, 5>>
    /\ i_args.period = 2
    /\ i_args.y_orig = <<10, 20, 30>>
    /\ i_args.offset = [given |-> TRUE, val |-> 10]
    /\ x_fine = <<R(1), R(3), R(5)>>
    /\ ValueIs(y_fine[2], 20)

LanczosOk ==
    /\ i_status = "ok"
    /\ \/ i_fn = "lanczos_interpolation"
       \/ Applied /\ MethodIs({"lanczos"})

(* x = (t_new[i] - t_orig[0]) / T *)
Position(i) ==
    RDiv(RSub(x_fine[i], R(i_args.x_orig[1])), R(i_args.x_orig[2] - i_args.x_orig[1]))

RCeil(a) == -((-a[1]) \div a[2])
Ascending(lo, hi) == [q \in 1..(hi - lo + 1) |-> lo + q - 1]
ElementsOf(q) == { q[j] : j \in 1..Len(q) }
LastIndex == Len(i_args.x_orig) - 1

(* the value v is the number c: a normalised average of terms all equal c *)
ConstantValue(v, c) ==
    /\ v.lib = NoLib
    /\ v.norm
    /\ Len(v.terms) >= 1
    /\ \A q \in 1..Len(v.terms) : v.terms[q].y + v.add = c

Range(first, last) == [i \in 1..(last - first + 1) |-> first + i - 1]

(* dict(zip(df["Channel"], df["Hits"])).get(ch, 0), lines 219-220: the     *)
(* last row of a channel wins, a channel without a row counts 0.           *)
HitsOf(df, ch) ==
    LET rows == { i \in 1..Len(df) : df[i].Channel = ch }
    IN  IF rows = {} THEN 0
        ELSE df[CHOOSE i \in rows : \A j \in rows : j <= i].Hits

MaxDfRows == 2
HitChannels == 0..3
Frames == SeqsUpTo([Channel : 0..2, Hits : {1, 5}], MaxDfRows)

HitsInit ==
    /\ h_status = "idle"
    /\ h_args = [df |-> <<>>, first_channel |-> 0, last_channel |-> 0, log_y |-> FALSE]
    /\ h_channels = <<>>
    /\ h_counts = <<>>
    /\ h_figure = FALSE

(* lines 217-250: no statement of the body raises on its arguments. *)
PlotChannelHits(a) ==
    /\ h_args' = a
    /\ h_channels' = Range(a.first_channel, a.last_channel)
    /\ h_counts' = [i \in 1..Len(Range(a.first_channel, a.last_channel)) |->
                      HitsOf(a.df, Range(a.first_channel, a.last_channel)[i])]
    /\ h_figure' = TRUE
    /\ h_status' = "ok"

HitsCalled == h_status # "idle"

(* C23: plot_channel_hits raises ValueError whenever last_channel is less *)
(* than first_channel, and produces no figure in that case.               *)
C23_InvertedRangeRaises ==
    (HitsCalled /\ h_args.last_channel < h_args.first_channel)
        => h_status = "ValueError" /\ ~h_figure

(* C23, what the code does: a figure with no bars is returned. *)
C23_InvertedRangeReturned ==
    /\ HitsCalled
    /\ h_args.first_channel = 3
    /\ h_args.last_channel = 1
    /\ h_status = "ok"
    /\ h_figure
    /\ h_channels = <<>>

(* ========= reorder_circular_samples_with_trigger, call after call ===== *)

AlignFailed(err) ==
    [status |-> err, shift |-> 0, trig |-> <<>>, samp |-> <<>>, start |-> <<>>]

(* Mutant: a call after the first one adds the shift of the call before. *)
MutReorder(t, s, r) ==
    IF Len(t) # Len(s) THEN AlignFailed("ShapeError")
    ELSE IF Len(Flatnonzero(t)) = 0 THEN AlignFailed("AlignmentError: no trigger")
    ELSE IF ~LinearRun(t) /\ ~WrapRun(t) THEN AlignFailed("AlignmentError: non-contiguous block")
    ELSE LET shift == IF r_phase = "first" THEN Shift(t) + r_first.shift ELSE Shift(t)
         IN  IF ~IndexInRange(Len(t), shift) THEN AlignFailed("IndexError")
             ELSE [status |-> "ok",
                   shift |-> shift,
                   trig |-> Roll(t, shift),
                   samp |-> SampReordered(s, r, shift),
                   start |-> StartIndicator(Len(t), shift)]

(* lines 1358-1405 for one-dimensional arrays, as a function of the        *)
(* arguments: the body reads trig_arr and samp_arr and writes to neither.  *)
Reorder(t, s, r) ==
    IF Len(t) # Len(s) THEN AlignFailed("ShapeError")
    ELSE IF Len(Flatnonzero(t)) = 0 THEN AlignFailed("AlignmentError: no trigger")
    ELSE IF ~LinearRun(t) /\ ~WrapRun(t) THEN AlignFailed("AlignmentError: non-contiguous block")
    ELSE IF ~IndexInRange(Len(t), Shift(t)) THEN AlignFailed("IndexError")
    ELSE [status |-> "ok",
          shift |-> Shift(t),
          trig |-> Roll(t, Shift(t)),
          samp |-> SampReordered(s, r, Shift(t)),
          start |-> StartIndicator(Len(t), Shift(t))]

(* The waveforms a caller holds: a 0/1 mask with the ramp 0, 1, ... or the *)
(* levels 10, 20, 10, ... of its length, or a ramp one entry longer.       *)
Levels(n) == [i \in 1..n |-> IF i % 2 = 1 THEN 10 ELSE 20]
Waveforms ==
    UNION { { <<t, Idx0(Len(t))>>, <<t, Levels(Len(t))>>, <<t, Idx0(Len(t) + 1)>> }
            : t \in TrigArrays }

RealignInit ==
    /\ w_trig = <<>>
    /\ w_samp = <<>>
    /\ w_flag = FALSE
    /\ r_phase = "none"
    /\ r_first = AlignFailed("")
    /\ r_second = AlignFailed("")

(* the caller builds the arrays of a waveform *)
NewWaveform(t, s, r) ==
    /\ r_phase = "none"
    /\ w_trig' = t
    /\ w_samp' = s
    /\ w_flag' = r
    /\ r_phase' = "ready"
    /\ UNCHANGED <<r_first, r_second>>

(* the first call on the caller's arrays *)
AlignFirst ==
    /\ r_phase = "ready"
    /\ r_first' = Reorder(w_trig, w_samp, w_flag)
    /\ r_phase' = "first"
    /\ UNCHANGED <<w_trig, w_samp, w_flag, r_second>>

(* a second call with the same arguments *)
AlignSameAgain ==
    /\ r_phase = "first"
    /\ r_second' = Reorder(w_trig, w_samp, w_flag)
    /\ r_phase' = "same"
    /\ UNCHANGED <<w_trig, w_samp, w_flag, r_first>>

(* a second call on the arrays the first call returned, samples rotated *)
AlignResultAgain ==
    /\ r_phase = "first"
    /\ r_first.status = "ok"
    /\ r_second' = Reorder(r_first.trig, r_first.samp, TRUE)
    /\ r_phase' = "result"
    /\ UNCHANGED <<w_trig, w_samp, w_flag, r_first>>

(* The call actions of the one-call model and Reorder agree. *)
AlignAgreesWithReorder ==
    (Called /\ trig_ndim = 1 /\ samp_ndim = 1) =>
        LET res == Reorder(trig_arr, samp_arr, reorder_samples)
        IN  /\ a_status = res.status
            /\ a_status = "ok"
                  => /\ a_shift = res.shift
                     /\ trig_reordered = res.trig
                     /\ samp_reordered = res.samp
                     /\ start_indicator = res.start

C28_RaisingWitness ==
    /\ r_phase = "same"
    /\ r_first.status = "AlignmentError: non-contiguous block"
    /\ r_second = r_first

(* the values of a occur as often in b *)
SameMultiset(a, b) ==
    /\ Len(a) = Len(b)
    /\ \A v \in ElementsOf(a) \cup ElementsOf(b) :
          Cardinality({ i \in 1..Len(a) : a[i] = v }) = Cardinality({ i \in 1..Len(b) : b[i] = v })

(* C30: aligning the rotated mask and samples an alignment returned, with *)
(* rotate_samples true, gives shift 0, the same mask and samples and a    *)
(* start_marker with its 1 at index 0; every alignment keeps the number   *)
(* of 1s of the mask and the multiset of sample values.                   *)
C30_Idempotent ==
    /\ (r_phase \in {"first", "same", "result"} /\ r_first.status = "ok")
          => /\ NumOnes(r_first.trig) = NumOnes(w_trig)
             /\ SameMultiset(r_first.samp, w_samp)
    /\ r_phase = "result"
          => /\ r_second.status = "ok"
             /\ r_second.shift = 0
             /\ r_second.trig = r_first.trig
             /\ r_second.samp = r_first.samp
             /\ r_second.start = [j \in 1..Len(r_first.trig) |-> IF j = 1 THEN 1 ELSE 0]

C30_Witness ==
    /\ r_phase = "result"
    /\ w_trig = <<1, 1, 0, 0, 0, 1>>
    /\ w_samp = <<0, 1, 2, 3, 4, 5>>
    /\ w_flag
    /\ r_first.shift = -2
    /\ r_first.samp = <<2, 3, 4, 5, 0, 1>>
    /\ r_second.shift = 0
    /\ r_second.samp = <<2, 3, 4, 5, 0, 1>>
    /\ r_second.start = <<1, 0, 0, 0, 0, 0>>

(* ============================ plot_waveform =========================== *)

Positions(n) == 0..(n - 1)
OnesOf(a) == { i \in Positions(Len(a)) : a[i + 1] = 1 }
ZerosOf(a) == { i \in Positions(Len(a)) : a[i + 1] = 0 }

(* lines 1534 and 1537: the positions scattered as "Trigger" *)
MaskTrigger(trig_shifted, start_mask, buffer_start) ==
    IF buffer_start THEN OnesOf(trig_shifted) \ start_mask
    ELSE OnesOf(trig_shifted)

(* Mutant: the buffer start is not taken out of the ordinary samples. *)
MutMaskSample(trig_shifted, start_mask, buffer_start) ==
    IF buffer_start THEN ZerosOf(trig_shifted)
    ELSE Positions(Len(trig_shifted)) \ OnesOf(trig_shifted)

(* lines 1535 and 1538: the positions scattered as "Hit samples" *)
MaskSample(trig_shifted, start_mask, buffer_start) ==
    IF buffer_start THEN ZerosOf(trig_shifted) \ start_mask
    ELSE Positions(Len(trig_shifted)) \ OnesOf(trig_shifted)

NothingDrawn(err) ==
    [status |-> err, line |-> FALSE, trig_shifted |-> <<>>,
     start |-> {}, trigger |-> {}, sample |-> {}, dots |-> {}]

(* lines 1494-1503: trig_shifted, samp_shifted and start_mask, or the      *)
(* error raised on the way *)
Shifted(a) ==
    IF a.reorder_circular_buffer
    THEN LET res == Reorder(a.trig_arr, a.samp_arr, a.reorder_samp_arr)
         IN  [status |-> res.status, trig |-> res.trig, samp |-> res.samp,
              start_mask |-> OnesOf(res.start)]
    ELSE IF Len(a.trig_arr) = 0
         THEN [status |-> "IndexError", trig |-> <<>>, samp |-> <<>>, start_mask |-> {}]
         ELSE [status |-> "ok", trig |-> a.trig_arr, samp |-> a.samp_arr,
               start_mask |-> {0}]

(* lines 1508-1510: the interpolation asked for, "ok" when none is *)
LineStatus(a, samp_shifted) ==
    IF a.method.given /\ a.method.name # ""
    THEN ApplyInterpolationMethod(
             [x_orig |-> [i \in 1..Len(a.trig_arr) |-> (i - 1) * a.period],
              y_orig |-> samp_shifted, period |-> a.period, method |-> a.method,
              factor |-> a.factor, param |-> a.param,
              offset |-> [given |-> TRUE, val |-> a.baseline], t_new |-> <<>>]).status
    ELSE "ok"

(* lines 1489-1560 *)
PlotWaveformResult(a) ==
    IF Len(a.samp_arr) # Len(a.trig_arr) THEN NothingDrawn("ShapeError")
    ELSE LET sh == Shifted(a)
             interpolated == LineStatus(a, sh.samp)
         IN  IF sh.status # "ok" THEN NothingDrawn(sh.status)
             ELSE IF interpolated # "ok" THEN NothingDrawn(interpolated)
             ELSE [status |-> "ok",
                   line |-> a.method.given /\ a.method.name # "",
                   trig_shifted |-> sh.trig,
                   start |-> IF a.plot_sample_types /\ a.plot_buffer_start
                             THEN sh.start_mask ELSE {},
                   trigger |-> IF a.plot_sample_types
                               THEN MaskTrigger(sh.trig, sh.start_mask, a.plot_buffer_start)
                               ELSE {},
                   sample |-> IF a.plot_sample_types
                              THEN MaskSample(sh.trig, sh.start_mask, a.plot_buffer_start)
                              ELSE {},
                   dots |-> IF a.plot_sample_types THEN {}
                            ELSE Positions(Len(a.trig_arr))]

MaxPlot == 4
PlotWaveforms == { w \in Waveforms : Len(w[1]) <= MaxPlot }

PlotMethods ==
    {None} \cup { [given |-> TRUE, name |-> nm] : nm \in {"sinc", "hann", "cubic"} }

PlotArgs ==
    { [trig_arr |-> w[1], samp_arr |-> w[2], period |-> 1, baseline |-> 10,
       method |-> m, factor |-> 1, param |-> 1,
       reorder_circular_buffer |-> rc, reorder_samp_arr |-> rs,
       plot_sample_types |-> st, plot_buffer_start |-> bs]
      : w \in PlotWaveforms, m \in PlotMethods,
        rc \in BOOLEAN, rs \in BOOLEAN, st \in BOOLEAN, bs \in BOOLEAN }

PlotInit ==
    /\ p_status = "idle"
    /\ p_args = [trig_arr |-> <<>>, samp_arr |-> <<>>, period |-> 1, baseline |-> 0,
                 method |-> None, factor |-> 1, param |-> 1,
                 reorder_circular_buffer |-> FALSE, reorder_samp_arr |-> FALSE,
                 plot_sample_types |-> FALSE, plot_buffer_start |-> FALSE]
    /\ p_line = FALSE
    /\ p_trig_shifted = <<>>
    /\ p_start = {}
    /\ p_trigger = {}
    /\ p_sample = {}
    /\ p_dots = {}

(* a call of plot_waveform *)
PlotWaveform(a) ==
    \E res \in {PlotWaveformResult(a)} :
        /\ p_args' = a
        /\ p_status' = res.status
        /\ p_line' = res.line
        /\ p_trig_shifted' = res.trig_shifted
        /\ p_start' = res.start
        /\ p_trigger' = res.trigger
        /\ p_sample' = res.sample
        /\ p_dots' = res.dots

MarkersDrawn == p_status = "ok" /\ p_args.plot_sample_types

(* C22: with sample-type markers enabled and a 0/1 mask, 'buffer start',  *)
(* 'trigger' and 'ordinary sample' are pairwise disjoint and cover every  *)
(* sample position; with buffer start requested it is the one position    *)
(* start_marker marks (position 0 when the buffer is not reordered),      *)
(* 'trigger' is the positions with rotated mask 1 minus that position and *)
(* 'ordinary sample' all the rest; without it the buffer-start set is     *)
(* empty and trigger / ordinary split the positions by mask value. The    *)
(* sets are those of the same call without an interpolation method.       *)
C22_MarkerPartition ==
    MarkersDrawn =>
        LET all == Positions(Len(p_args.trig_arr))
            ones == OnesOf(p_trig_shifted)
            n == Len(p_args.trig_arr)
            marked == IF p_args.reorder_circular_buffer
                      THEN { Shift(p_args.trig_arr) % n } ELSE {0}
            plain == PlotWaveformResult([p_args EXCEPT !.method = None])
        IN  /\ p_start \cap p_trigger = {}
            /\ p_start \cap p_sample = {}
            /\ p_trigger \cap p_sample = {}
            /\ p_start \cup p_trigger \cup p_sample = all
            /\ p_dots = {}
            /\ p_trig_shifted = IF p_args.reorder_circular_buffer
                                THEN Roll(p_args.trig_arr, Shift(p_args.trig_arr))
                                ELSE p_args.trig_arr
            /\ IF p_args.plot_buffer_start
               THEN /\ p_start = marked
                    /\ p_trigger = ones \ marked
                    /\ p_sample = all \ (ones \cup marked)
               ELSE /\ p_start = {}
                    /\ p_trigger = ones
                    /\ p_sample = all \ ones
            /\ plain.status = "ok"
            /\ <<p_start, p_trigger, p_sample>> = <<plain.start, plain.trigger, plain.sample>>

C22_Witness ==
    /\ MarkersDrawn
    /\ p_args.plot_buffer_start
    /\ p_args.reorder_circular_buffer
    /\ p_args.method.given
    /\ p_line
    /\ p_args.trig_arr = <<0, 1, 1, 0>>
    /\ p_trig_shifted = <<0, 0, 1, 1>>
    /\ p_start = {1}
    /\ p_trigger = {2, 3}
    /\ p_sample = {0}

C22_TriggerAtStartWitness ==
    /\ MarkersDrawn
    /\ p_args.plot_buffer_start
    /\ ~p_args.reorder_circular_buffer
    /\ ~p_line
    /\ p_args.trig_arr = <<1, 1, 0>>
    /\ p_start = {0}
    /\ p_trigger = {1}
    /\ p_sample = {2}

Init ==
    /\ ExtractInit /\ AlignInit /\ InterpInit
    /\ HitsInit /\ RealignInit /\ PlotInit

NextExtract ==
    \/ /\ pc = "idle"
       /\ \E bs \in Streams, fh \in 0..MaxFirst,
             nh \in 0..MaxNum, cf \in Filters : Call(bs, fh, nh, cf)
       /\ UNCHANGED <<avars, ivars, hvars, rvars, pvars>>
    \/ RequestFirst /\ UNCHANGED <<avars, ivars, hvars, rvars, pvars>>
    \/ RequestNext /\ UNCHANGED <<avars, ivars, hvars, rvars, pvars>>
    \/ PullBatch /\ UNCHANGED <<avars, ivars, hvars, rvars, pvars>>
    \/ PullBatchRaise /\ UNCHANGED <<avars, ivars, hvars, rvars, pvars>>
    \/ BatchesExhausted /\ UNCHANGED <<avars, ivars, hvars, rvars, pvars>>
    \/ RowFiltered /\ UNCHANGED <<avars, ivars, hvars, rvars, pvars>>
    \/ RowSkipped /\ UNCHANGED <<avars, ivars, hvars, rvars, pvars>>
    \/ RowStop /\ UNCHANGED <<avars, ivars, hvars, rvars, pvars>>
    \/ RowYield /\ UNCHANGED <<avars, ivars, hvars, rvars, pvars>>
    \/ RowsExhausted /\ UNCHANGED <<avars, ivars, hvars, rvars, pvars>>

Spec == Init /\ [][NextExtract]_vars

Inputs == TrigArrays \X SampArrays \X BOOLEAN

(* Calls in which at least one array is two-dimensional. *)
Ndims == {1, 2}
InputsNd ==
    { in \in TrigArrays \X { Idx0(n) : n \in 0..MaxN } \X BOOLEAN \X Ndims \X Ndims :
        in[4] # 1 \/ in[5] # 1 }

NextAlign ==
    \/ /\ a_status = "idle"
       /\ \E in \in InputsNd : AlignNotOneD(in[1], in[2], in[3], in[4], in[5])
       /\ UNCHANGED <<gvars, ivars, hvars, rvars, pvars>>
    \/ /\ a_status = "idle"
       /\ \E in \in Inputs : AlignShapeError(in[1], in[2], in[3])
       /\ UNCHANGED <<gvars, ivars, hvars, rvars, pvars>>
    \/ /\ a_status = "idle"
       /\ \E in \in Inputs : AlignNoTrigger(in[1], in[2], in[3])
       /\ UNCHANGED <<gvars, ivars, hvars, rvars, pvars>>
    \/ /\ a_status = "idle"
       /\ \E in \in Inputs : AlignNonContiguous(in[1], in[2], in[3])
       /\ UNCHANGED <<gvars, ivars, hvars, rvars, pvars>>
    \/ /\ a_status = "idle"
       /\ \E in \in Inputs : AlignReturn(in[1], in[2], in[3])
       /\ UNCHANGED <<gvars, ivars, hvars, rvars, pvars>>

SpecAlign == Init /\ [][NextAlign]_vars

NextInterp ==
    \/ /\ i_status = "idle"
       /\ \E a \in ApplyArgs : CallApply(a)
       /\ UNCHANGED <<gvars, avars, hvars, rvars, pvars>>
    \/ /\ i_status = "idle"
       /\ \E a \in KernelArgs(Windows) : CallWindowedSinc(a)
       /\ UNCHANGED <<gvars, avars, hvars, rvars, pvars>>
    \/ /\ i_status = "idle"
       /\ \E a \in KernelArgs({"lanczos"}) : CallLanczos(a)
       /\ UNCHANGED <<gvars, avars, hvars, rvars, pvars>>

SpecInterp == Init /\ [][NextInterp]_vars

NextHits ==
    /\ h_status = "idle"
    /\ \E a \in [df : Frames, first_channel : HitChannels, last_channel : HitChannels,
                 log_y : BOOLEAN] : PlotChannelHits(a)
    /\ UNCHANGED <<gvars, avars, ivars, rvars, pvars>>

SpecHits == Init /\ [][NextHits]_vars

NextRealign ==
    \/ /\ r_phase = "none"
       /\ \E w \in Waveforms, r \in BOOLEAN : NewWaveform(w[1], w[2], r)
       /\ UNCHANGED <<gvars, avars, ivars, hvars, pvars>>
    \/ AlignFirst /\ UNCHANGED <<gvars, avars, ivars, hvars, pvars>>
    \/ AlignSameAgain /\ UNCHANGED <<gvars, avars, ivars, hvars, pvars>>
    \/ AlignResultAgain /\ UNCHANGED <<gvars, avars, ivars, hvars, pvars>>

SpecRealign == Init /\ [][NextRealign]_vars

NextPlot ==
    /\ p_status = "idle"
    /\ \E a \in PlotArgs : PlotWaveform(a)
    /\ UNCHANGED <<gvars, avars, ivars, hvars, rvars>>

SpecPlot == Init /\ [][NextPlot]_vars

====
